---- MODULE Spec2Model ----
(***************************************************************************)
(* Financial transaction subsystem of the brokerage backend (src/app.js):  *)
(* POST /jobs/:job_id/pay and POST /balances/deposit/:userId, each run as  *)
(* one managed sequelize transaction, interleaved at every await.          *)
(* Money is counted in integer units; 0.25 * x is compared as x against    *)
(* 4 * amount.                                                             *)
(***************************************************************************)
EXTENDS Integers, FiniteSets, Sequences, TLC

\* Number of requests that arrive in one run.
MaxReq == 2

Reqs == 1..MaxReq

------------------------------------------------------------------------------
\* Ledger rows that exist when the service starts (models are defined in
\* ./model, seeded externally).

Profiles == {1, 2, 3}

ContractTable ==
    (1 :> [ClientId |-> 1, ContractorId |-> 2]) @@ (2 :> [ClientId |-> 3, ContractorId |-> 2])

JobTable ==
    (1 :> [ContractId |-> 1, price |-> 4]) @@ (2 :> [ContractId |-> 1, price |-> 8])
        @@ (3 :> [ContractId |-> 2, price |-> 4])

JobIds == DOMAIN JobTable

InitBalance == (1 :> 5) @@ (2 :> 0) @@ (3 :> 8)

\* Inputs of the requests: ids include one that names no row.
ReqJobIds == JobIds \cup {0}
ReqUserIds == Profiles \cup {0}
DepositAmounts == {-6, 0, 1, 3}

ProfileRow(id) == <<"Profile", id>>
JobRow(id) == <<"Job", id>>
Rows == {ProfileRow(p) : p \in Profiles} \cup {JobRow(j) : j \in JobIds}

ClientOf(j) == ContractTable[JobTable[j].ContractId].ClientId
ContractorOf(j) == ContractTable[JobTable[j].ContractId].ContractorId

------------------------------------------------------------------------------
\* Rows the /admin reports are run against: four contracts of three clients
\* (1, 3, 6) with three contractors (2, 4, 5) of two professions, one job each;
\* the price and paymentDate of the jobs vary from run to run.

Profession == (2 :> "A") @@ (4 :> "B") @@ (5 :> "A")

FullName == (1 :> "X X") @@ (3 :> "Y Y") @@ (6 :> "Z Z")

AdminContractTable ==
    (1 :> [ClientId |-> 1, ContractorId |-> 2, createdAt |-> 1])
        @@ (2 :> [ClientId |-> 3, ContractorId |-> 4, createdAt |-> 2])
        @@ (3 :> [ClientId |-> 6, ContractorId |-> 5, createdAt |-> 2])
        @@ (4 :> [ClientId |-> 1, ContractorId |-> 4, createdAt |-> 3])

AdminJobContract == (1 :> 1) @@ (2 :> 2) @@ (3 :> 3) @@ (4 :> 4)

AdminJobIds == DOMAIN AdminJobContract

AdminLedgers == [AdminJobIds -> [price : {1, 2}, paymentDate : {<<>>, <<1>>, <<2>>}]]

\* req.query: start, end and limit are absent (<<>>) or given
QueryDates == {<<>>} \cup {<<d>> : d \in 1..3}
QueryLimits == {<<>>} \cup {<<n>> : n \in 0..3}

AdminContractOf(j) == AdminContractTable[AdminJobContract[j]]

\* the end of the window left out
BetweenEndExclusive(x, start, end) == start <= x /\ x < end

\* x BETWEEN :start AND :end
Between(x, start, end) == start <= x /\ x <= end

\* SUM(jobs.price) over the jobs of one group
RECURSIVE SumPrice(_, _)
SumPrice(db, S) ==
    IF S = {} THEN 0
    ELSE LET j == CHOOSE j \in S : TRUE IN db[j].price + SumPrice(db, S \ {j})

\* ORDER BY key DESC: every order of the rows that is descending in the key
\* (rows of equal key come in either order)
OrderByDesc(rows, key) ==
    {seq \in [1..Cardinality(rows) -> rows] :
        /\ \A i, k \in 1..Cardinality(rows) : i # k => seq[i] # seq[k]
        /\ \A i \in 1..(Cardinality(rows) - 1) : seq[i][key] >= seq[i + 1][key]}

\* ORDER BY key ASC
OrderByAsc(rows, key) ==
    {seq \in [1..Cardinality(rows) -> rows] :
        /\ \A i, k \in 1..Cardinality(rows) : i # k => seq[i] # seq[k]
        /\ \A i \in 1..(Cardinality(rows) - 1) : seq[i][key] <= seq[i + 1][key]}

\* LIMIT n
Limit(seq, n) == SubSeq(seq, 1, IF n < Len(seq) THEN n ELSE Len(seq))

\* WHERE jobs.paymentDate BETWEEN :start AND :end
PaidInWindow(db, start, end) ==
    {j \in AdminJobIds :
        db[j].paymentDate # <<>> /\ Between(db[j].paymentDate[1], start, end)}

\* INNER JOIN profiles AS contractor ... GROUP BY contractor.profession
ProfessionOfJob(j) == Profession[AdminContractOf(j).ContractorId]

\* ORDER BY earnings DESC
OrderByEarnings(rows) == OrderByDesc(rows, "earnings")

\* the best-profession SELECT: the results the store may return
BestProfessionQuery(db, start, end) ==
    LET jobs == PaidInWindow(db, start, end)
        rows == {[profession |-> p,
                  earnings |-> SumPrice(db, {j \in jobs : ProfessionOfJob(j) = p})] :
                    p \in {ProfessionOfJob(j) : j \in jobs}}
    IN {Limit(seq, 1) : seq \in OrderByEarnings(rows)}

\* WHERE contract.createdAt BETWEEN :start AND :end
CreatedInWindow(start, end) ==
    {j \in AdminJobIds : Between(AdminContractOf(j).createdAt, start, end)}

\* INNER JOIN profiles AS client ... GROUP BY client.id
ClientOfJob(j) == AdminContractOf(j).ClientId

\* ORDER BY paid ASC
OrderByPaidAscending(rows) == OrderByAsc(rows, "paid")

\* ORDER BY paid DESC
OrderByPaid(rows) == OrderByDesc(rows, "paid")

\* the best-clients SELECT: the results the store may return
BestClientsQuery(db, start, end, queryLimit) ==
    LET jobs == CreatedInWindow(start, end)
        rows == {[id |-> c, fullName |-> FullName[c],
                  paid |-> SumPrice(db, {j \in jobs : ClientOfJob(j) = c})] :
                    c \in {ClientOfJob(j) : j \in jobs}}
    IN {Limit(seq, queryLimit) : seq \in OrderByPaid(rows)}

\* && in place of ||
IsMissingBoth(start, end) == start = <<>> /\ end = <<>>

\* if (!start || !end)
IsMissing(start, end) == start = <<>> \/ end = <<>>

\* const queryLimit = limit ? parseInt(limit, 10) : 2
QueryLimit(limit) == IF limit # <<>> THEN limit[1] ELSE 2

------------------------------------------------------------------------------
VARIABLES
    balance,    \* committed Profile.balance
    job,        \* committed Job rows: [paid, paymentDate]
    version,    \* store: number of committed writes per row
    clock,      \* wall clock read by new Date()
    pc,         \* position of each request's handler
    rq,         \* the request: params, body, resolved caller
    loc,        \* model instances held by the handler, and what it read
    res,        \* the response sent
    expected,   \* history: initial balance plus committed credits minus debits
    admin       \* the /admin report request: the rows it queries, its query and response

vars == <<balance, job, version, clock, pc, rq, loc, res, expected, admin>>
store == <<balance, job>>

NoResponse == [status |-> 0, body |-> ""]
NoRequest == [kind |-> "none", id |-> 0, job_id |-> 0, userId |-> 0, depositAmount |-> 0]
NoLocals ==
    [job |-> [paid |-> FALSE, paymentDate |-> <<>>],
     client |-> [balance |-> 0],
     contractor |-> [balance |-> 0],
     reads |-> {}]

PaymentSuccessful == [status |-> 200, body |-> "Payment successful"]
DepositSuccessful == [status |-> 200, body |-> "Deposit successful"]
JobNotFound == "Job not found"
AlreadyPaid == "Already paid"
WrongJobId == "Wrong job id"
InsufficientFunds == "Client's balance is insufficient for payment"
ClientNotFound == "Client not found"
LimitExceeded == "Deposit amount exceeds the maximum allowed"
\* message of the error the store raises (conflict, failed statement)
StoreErrorMessage == "SequelizeDatabaseError"

ErrorResponse(error) == [status |-> 400, body |-> error]


BothRequired == "Both start and end parameters are required"
NoDataFound == "No data found for the specified time range"

NoQuery == [op |-> "none", start |-> <<>>, end |-> <<>>, limit |-> <<>>]
NoAdminResponse == [status |-> 0, key |-> "", body |-> "", rows |-> <<>>]

\* no report requested yet, over the rows db
AdminIdle(db) ==
    [pc |-> "idle", db |-> db, query |-> NoQuery, res |-> NoAdminResponse, queries |-> 0]

Init ==
    /\ balance = InitBalance
    /\ job = [j \in JobIds |-> [paid |-> FALSE, paymentDate |-> <<>>]]
    /\ version = [row \in Rows |-> 0]
    /\ clock = 1
    /\ pc = [r \in Reqs |-> "idle"]
    /\ rq = [r \in Reqs |-> NoRequest]
    /\ loc = [r \in Reqs |-> NoLocals]
    /\ res = [r \in Reqs |-> NoResponse]
    /\ expected = InitBalance
    /\ admin = AdminIdle([j \in AdminJobIds |-> [price |-> 1, paymentDate |-> <<>>]])

\* The reports are run over any content of the jobs table.
InitReport ==
    /\ balance = InitBalance
    /\ job = [j \in JobIds |-> [paid |-> FALSE, paymentDate |-> <<>>]]
    /\ version = [row \in Rows |-> 0]
    /\ clock = 1
    /\ pc = [r \in Reqs |-> "idle"]
    /\ rq = [r \in Reqs |-> NoRequest]
    /\ loc = [r \in Reqs |-> NoLocals]
    /\ res = [r \in Reqs |-> NoResponse]
    /\ expected = InitBalance
    /\ admin \in {AdminIdle(db) : db \in AdminLedgers}

------------------------------------------------------------------------------
\* The ledger store: reads inside a transaction return committed rows and are
\* remembered; a commit is refused when a remembered row has since been
\* written by another commit, so committed units of work are serialized.

TxRead(reads, rows) == reads \cup {[row |-> row, ver |-> version[row]] : row \in rows}

Validate(reads) == \A rd \in reads : version[rd.row] = rd.ver

ApplyProfiles(ws) ==
    [p \in Profiles |->
        IF \E w \in ws : w.id = p THEN (CHOOSE w \in ws : w.id = p).balance ELSE balance[p]]

ApplyJobs(ws) ==
    [j \in JobIds |->
        IF \E w \in ws : w.id = j
        THEN LET w == CHOOSE w \in ws : w.id = j
             IN [paid |-> w.paid, paymentDate |-> w.paymentDate]
        ELSE job[j]]

BumpVersions(pws, jws) ==
    [row \in Rows |->
        IF \/ \E w \in pws : row = ProfileRow(w.id)
           \/ \E w \in jws : row = JobRow(w.id)
        THEN version[row] + 1 ELSE version[row]]

InTx(ws) == {w \in ws : w.tx}
OutsideTx(ws) == {w \in ws : ~w.tx}

\* COMMIT of the rows saved with the transaction, together with the rows
\* saved without it (each of those is its own commit).
Commit(pws, jws) ==
    /\ balance' = ApplyProfiles(pws)
    /\ job' = ApplyJobs(jws)
    /\ version' = BumpVersions(pws, jws)

\* ROLLBACK: rows saved with the transaction are discarded.
Rollback(pws, jws) == Commit(OutsideTx(pws), OutsideTx(jws))

\* Requests are numbered in the order they arrive.
StartsInOrder(r) == pc[r] = "idle" /\ \A q \in Reqs : q < r => pc[q] # "idle"

Respond(r, response) ==
    /\ pc' = [pc EXCEPT ![r] = "done"]
    /\ res' = [res EXCEPT ![r] = response]

\* the credit saved, outside the transaction, before the check that throws
ThrowAfterSave(r, error) ==
    /\ Respond(r, ErrorResponse(error))
    /\ balance' = [p \in Profiles |->
                    IF rq[r].kind = "deposit" /\ p = rq[r].userId
                    THEN balance[p] + rq[r].depositAmount ELSE balance[p]]
    /\ UNCHANGED <<job, version, clock, expected, admin>>

\* throw inside the transaction callback: rollback of nothing, 400 with the message
Throw(r, error) ==
    /\ Respond(r, ErrorResponse(error))
    /\ UNCHANGED <<balance, job, version, clock, expected, admin>>

------------------------------------------------------------------------------
\* POST /jobs/:job_id/pay

\* Job.findByPk(job_id, {transaction: t, include: [Contract]})
JobFindByPk(job_id) ==
    IF job_id \in JobIds
    THEN [found |-> TRUE, paid |-> job[job_id].paid, paymentDate |-> job[job_id].paymentDate]
    ELSE [found |-> FALSE, paid |-> FALSE, paymentDate |-> <<>>]

\* the paid check left out
IsPaidNever(j) == FALSE

\* if (job.dataValues.paid)
IsPaid(j) == j.paid

\* the caller check left out
IsWrongCallerNever(clientId, id) == FALSE

\* if (clientId !== id)
IsWrongCaller(clientId, id) == clientId # id

\* the funds check left out
IsInsufficientNever(clientBalance, amountToPay) == FALSE

\* if (client.balance < amountToPay)
IsInsufficient(clientBalance, amountToPay) == clientBalance < amountToPay

\* const job = await Job.findByPk(...)
PayLoadJob(l, job_id) ==
    LET j == JobFindByPk(job_id)
    IN [l EXCEPT !.job = [paid |-> j.paid, paymentDate |-> j.paymentDate],
                 !.reads = TxRead(@, {JobRow(job_id)})]

\* the client loaded without { transaction: t }
PayLoadClientOutsideTx(l, clientId) == [l EXCEPT !.client = [balance |-> balance[clientId]]]

\* const client = await Profile.findByPk(clientId, { transaction: t })
PayLoadClient(l, clientId) ==
    [l EXCEPT !.client = [balance |-> balance[clientId]],
              !.reads = TxRead(@, {ProfileRow(clientId)})]

\* const contractor = await Profile.findByPk(contractorId, { transaction: t })
PayLoadContractor(l, contractorId) ==
    [l EXCEPT !.contractor = [balance |-> balance[contractorId]],
              !.reads = TxRead(@, {ProfileRow(contractorId)})]

\* the credit of the contractor left out
PayMutateNoCredit(l, amountToPay, now) ==
    [l EXCEPT !.client = [balance |-> @.balance - amountToPay],
              !.job = [paid |-> TRUE, paymentDate |-> <<now>>]]

\* job.paymentDate = new Date() left out
PayMutateNoDate(l, amountToPay, now) ==
    [l EXCEPT !.client = [balance |-> @.balance - amountToPay],
              !.contractor = [balance |-> @.balance + amountToPay],
              !.job = [paid |-> TRUE, paymentDate |-> <<>>]]

\* client.balance -= amountToPay; contractor.balance += amountToPay;
\* job.paid = true; job.paymentDate = new Date()
PayMutate(l, amountToPay, now) ==
    [l EXCEPT !.client = [balance |-> @.balance - amountToPay],
              !.contractor = [balance |-> @.balance + amountToPay],
              !.job = [paid |-> TRUE, paymentDate |-> <<now>>]]

\* client.save({ transaction: t }), contractor.save({ transaction: t })
PayProfileWrites(r) ==
    {[id |-> ClientOf(rq[r].job_id), balance |-> loc[r].client.balance, tx |-> TRUE],
     [id |-> ContractorOf(rq[r].job_id), balance |-> loc[r].contractor.balance, tx |-> TRUE]}

\* job.save() left out
PayJobWritesNone(r) == {}

\* job.save() without { transaction: t }
PayJobWritesOutsideTx(r) ==
    {[id |-> rq[r].job_id, paid |-> loc[r].job.paid,
      paymentDate |-> loc[r].job.paymentDate, tx |-> FALSE]}

\* job.save({ transaction: t })
PayJobWrites(r) ==
    {[id |-> rq[r].job_id, paid |-> loc[r].job.paid,
      paymentDate |-> loc[r].job.paymentDate, tx |-> TRUE]}

\* The request arrives and the handler runs up to its first await.
PayFindJob(r) ==
    /\ StartsInOrder(r)
    /\ \E id \in Profiles, job_id \in ReqJobIds :
        LET j == JobFindByPk(job_id)
        IN /\ rq' = [rq EXCEPT ![r] = [NoRequest EXCEPT !.kind = "pay", !.id = id,
                                                         !.job_id = job_id]]
           /\ IF ~j.found
              THEN Throw(r, JobNotFound) /\ UNCHANGED loc
              ELSE /\ loc' = [loc EXCEPT ![r] = PayLoadJob(@, job_id)]
                   /\ IF IsPaid(j)
                      THEN Throw(r, AlreadyPaid)
                      ELSE /\ pc' = [pc EXCEPT ![r] = "pay_findClient"]
                           /\ UNCHANGED <<balance, job, version, clock, res, expected, admin>>

PayFindClient(r) ==
    /\ pc[r] = "pay_findClient"
    /\ loc' = [loc EXCEPT ![r] = PayLoadClient(@, ClientOf(rq[r].job_id))]
    /\ pc' = [pc EXCEPT ![r] = "pay_findContractor"]
    /\ UNCHANGED <<balance, job, version, clock, rq, res, expected, admin>>

\* The second profile is loaded, then the handler runs without another await
\* down to Promise.all.
PayFindContractor(r) ==
    /\ pc[r] = "pay_findContractor"
    /\ LET job_id == rq[r].job_id
           l == PayLoadContractor(loc[r], ContractorOf(job_id))
           amountToPay == JobTable[job_id].price
       IN IF IsWrongCaller(ClientOf(job_id), rq[r].id)
          THEN /\ loc' = [loc EXCEPT ![r] = l]
               /\ Throw(r, WrongJobId)
          ELSE IF IsInsufficient(l.client.balance, amountToPay)
          THEN /\ loc' = [loc EXCEPT ![r] = l]
               /\ Throw(r, InsufficientFunds)
          ELSE /\ loc' = [loc EXCEPT ![r] = PayMutate(l, amountToPay, clock)]
               /\ clock' = clock + 1
               /\ pc' = [pc EXCEPT ![r] = "pay_save"]
               /\ UNCHANGED <<balance, job, version, res, expected, admin>>
    /\ UNCHANGED rq

\* Promise.all of the three saves, then the commit of the managed transaction.
PaySave(r) ==
    /\ pc[r] = "pay_save"
    /\ IF Validate(loc[r].reads)
       THEN /\ Commit(PayProfileWrites(r), PayJobWrites(r))
            /\ expected' = [expected EXCEPT
                    ![ClientOf(rq[r].job_id)] = @ - JobTable[rq[r].job_id].price,
                    ![ContractorOf(rq[r].job_id)] = @ + JobTable[rq[r].job_id].price]
            /\ Respond(r, PaymentSuccessful)
       ELSE /\ Rollback(PayProfileWrites(r), PayJobWrites(r))
            /\ Respond(r, ErrorResponse(StoreErrorMessage))
            /\ UNCHANGED expected
    /\ UNCHANGED <<clock, rq, loc, admin>>

\* A save is rejected by the store: Promise.all rejects, the transaction is
\* rolled back.
PaySaveFails(r) ==
    /\ pc[r] = "pay_save"
    /\ Rollback(PayProfileWrites(r), PayJobWrites(r))
    /\ Respond(r, ErrorResponse(StoreErrorMessage))
    /\ UNCHANGED <<clock, rq, loc, expected, admin>>

------------------------------------------------------------------------------
\* POST /balances/deposit/:userId

\* Job.sum('price', {where: {paid: false, '$Contract.ClientId$': userId}, ...})
RECURSIVE SumPrices(_)
SumPrices(S) ==
    IF S = {} THEN 0
    ELSE LET j == CHOOSE j \in S : TRUE IN JobTable[j].price + SumPrices(S \ {j})

JobsOfClient(userId) == {j \in JobIds : ClientOf(j) = userId}
UnpaidJobsOfClient(userId) == {j \in JobsOfClient(userId) : ~job[j].paid}

\* SUM over no row is NULL
JobSum(userId) ==
    [null |-> UnpaidJobsOfClient(userId) = {}, value |-> SumPrices(UnpaidJobsOfClient(userId))]

\* maxDepositAmount = 0.25 * outstandingJobsAmount, in quarters (0.25 * null is 0)
MaxDepositAmountTimes4(outstandingJobsAmount) ==
    IF outstandingJobsAmount.null THEN 0 ELSE outstandingJobsAmount.value

\* >= in place of >: the boundary is refused
ExceedsMaxAtBoundary(depositAmount, outstandingJobsAmount) ==
    4 * depositAmount >= MaxDepositAmountTimes4(outstandingJobsAmount)

\* the sum over no row arrives as NaN: every comparison with it is false
ExceedsMaxNaN(depositAmount, outstandingJobsAmount) ==
    /\ ~outstandingJobsAmount.null
    /\ 4 * depositAmount > outstandingJobsAmount.value

\* if (depositAmount > maxDepositAmount)
ExceedsMax(depositAmount, outstandingJobsAmount) ==
    4 * depositAmount > MaxDepositAmountTimes4(outstandingJobsAmount)

\* const client = await Profile.findByPk(userId, { transaction: t })
DepositLoadClient(l, userId) ==
    [l EXCEPT !.client = [balance |-> balance[userId]],
              !.reads = TxRead(@, {ProfileRow(userId)})]

\* the rows the SUM query reads in the transaction
DepositLoadSum(l, userId) ==
    [l EXCEPT !.reads = TxRead(@, {JobRow(j) : j \in JobsOfClient(userId)})]

\* client.balance += depositAmount
DepositMutate(l, depositAmount) ==
    [l EXCEPT !.client = [balance |-> @.balance + depositAmount]]

\* client.save() without { transaction: t }
DepositProfileWritesOutsideTx(r) ==
    {[id |-> rq[r].userId, balance |-> loc[r].client.balance, tx |-> FALSE]}

\* client.save({ transaction: t })
DepositProfileWrites(r) ==
    {[id |-> rq[r].userId, balance |-> loc[r].client.balance, tx |-> TRUE]}

DepositFindClient(r) ==
    /\ StartsInOrder(r)
    /\ \E userId \in ReqUserIds, depositAmount \in DepositAmounts :
        /\ rq' = [rq EXCEPT ![r] = [NoRequest EXCEPT !.kind = "deposit", !.userId = userId,
                                                      !.depositAmount = depositAmount]]
        /\ IF userId \notin Profiles
           THEN Throw(r, ClientNotFound) /\ UNCHANGED loc
           ELSE /\ loc' = [loc EXCEPT ![r] = DepositLoadClient(@, userId)]
                /\ pc' = [pc EXCEPT ![r] = "deposit_sum"]
                /\ UNCHANGED <<balance, job, version, clock, res, expected, admin>>

DepositSum(r) ==
    /\ pc[r] = "deposit_sum"
    /\ LET userId == rq[r].userId
           outstandingJobsAmount == JobSum(userId)
           l == DepositLoadSum(loc[r], userId)
       IN IF ExceedsMax(rq[r].depositAmount, outstandingJobsAmount)
          THEN /\ loc' = [loc EXCEPT ![r] = l]
               /\ Throw(r, LimitExceeded)
          ELSE /\ loc' = [loc EXCEPT ![r] = DepositMutate(l, rq[r].depositAmount)]
               /\ pc' = [pc EXCEPT ![r] = "deposit_save"]
               /\ UNCHANGED <<balance, job, version, clock, res, expected, admin>>
    /\ UNCHANGED rq

DepositSave(r) ==
    /\ pc[r] = "deposit_save"
    /\ IF Validate(loc[r].reads)
       THEN /\ Commit(DepositProfileWrites(r), {})
            /\ expected' = [expected EXCEPT ![rq[r].userId] = @ + rq[r].depositAmount]
            /\ Respond(r, DepositSuccessful)
       ELSE /\ Rollback(DepositProfileWrites(r), {})
            /\ Respond(r, ErrorResponse(StoreErrorMessage))
            /\ UNCHANGED expected
    /\ UNCHANGED <<clock, rq, loc, admin>>

DepositSaveFails(r) ==
    /\ pc[r] = "deposit_save"
    /\ Rollback(DepositProfileWrites(r), {})
    /\ Respond(r, ErrorResponse(StoreErrorMessage))
    /\ UNCHANGED <<clock, rq, loc, expected, admin>>

------------------------------------------------------------------------------
\* GET /admin/best-profession and GET /admin/best-clients

AdminRespond(query, response, executed) ==
    /\ admin' = [admin EXCEPT !.pc = "done", !.query = query, !.res = response,
                              !.queries = @ + executed]
    /\ UNCHANGED <<balance, job, version, clock, pc, rq, loc, res, expected>>

\* res.status(400).json({ error: 'Both start and end parameters are required' })
AdminBadRequest == [status |-> 400, key |-> "error", body |-> BothRequired, rows |-> <<>>]

\* if (result.length > 0) bestProfession: result[0].profession, else the message
BestProfessionResponse(result) ==
    IF Len(result) > 0
    THEN [status |-> 200, key |-> "bestProfession", body |-> result[1].profession, rows |-> <<>>]
    ELSE [status |-> 200, key |-> "message", body |-> NoDataFound, rows |-> <<>>]

\* res.json(results)
BestClientsResponse(results) == [status |-> 200, key |-> "", body |-> "", rows |-> results]

\* a replacement of the query is undefined: sequelize.query throws
QueryThrows(start, end) == start = <<>> \/ end = <<>>

\* catch (error): res.status(500).json({ error: 'Internal Server Error' })
AdminServerError ==
    [status |-> 500, key |-> "error", body |-> "Internal Server Error", rows |-> <<>>]

BestProfession ==
    /\ admin.pc = "idle"
    /\ \E start \in QueryDates, end \in QueryDates :
        LET query == [NoQuery EXCEPT !.op = "best-profession", !.start = start, !.end = end]
        IN IF IsMissing(start, end)
           THEN AdminRespond(query, AdminBadRequest, 0)
           ELSE IF QueryThrows(start, end)
           THEN AdminRespond(query, AdminServerError, 1)
           ELSE \E result \in BestProfessionQuery(admin.db, start[1], end[1]) :
                    AdminRespond(query, BestProfessionResponse(result), 1)

BestClients ==
    /\ admin.pc = "idle"
    /\ \E start \in QueryDates, end \in QueryDates, limit \in QueryLimits :
        LET query == [op |-> "best-clients", start |-> start, end |-> end, limit |-> limit]
        IN IF IsMissing(start, end)
           THEN AdminRespond(query, AdminBadRequest, 0)
           ELSE IF QueryThrows(start, end)
           THEN AdminRespond(query, AdminServerError, 1)
           ELSE \E results \in BestClientsQuery(admin.db, start[1], end[1], QueryLimit(limit)) :
                    AdminRespond(query, BestClientsResponse(results), 1)

------------------------------------------------------------------------------
Next ==
    \E r \in Reqs :
        \/ PayFindJob(r)
        \/ PayFindClient(r)
        \/ PayFindContractor(r)
        \/ PaySave(r)
        \/ DepositFindClient(r)
        \/ DepositSum(r)
        \/ DepositSave(r)

Spec == Init /\ [][Next]_vars

\* The same service over a store whose writes can fail.
NextFault ==
    \/ Next
    \/ \E r \in Reqs : PaySaveFails(r)
    \/ \E r \in Reqs : DepositSaveFails(r)

SpecFault == Init /\ [][NextFault]_vars

\* The two reports, each over any content of the jobs table.
NextReport ==
    \/ BestProfession
    \/ BestClients

SpecReport == InitReport /\ [][NextReport]_vars

TypeOK ==
    /\ balance \in [Profiles -> Int]
    /\ \A j \in JobIds : job[j].paid \in BOOLEAN
    /\ \A r \in Reqs : pc[r] \in {"idle", "pay_findClient", "pay_findContractor", "pay_save",
                                  "deposit_sum", "deposit_save", "done"}

------------------------------------------------------------------------------
\* Vocabulary of the properties.

IsPay(r) == rq[r].kind = "pay"
IsDeposit(r) == rq[r].kind = "deposit"
Price(j) == JobTable[j].price
Moves(r) == pc'[r] # pc[r]
Finishes(r) == pc[r] # "done" /\ pc'[r] = "done"
PaySucceeded(r) == IsPay(r) /\ res[r] = PaymentSuccessful
PaySuccesses(j) == {r \in Reqs : PaySucceeded(r) /\ rq[r].job_id = j}
\* r pays an existing job as the client of its contract
ValidPay(r, j) == IsPay(r) /\ rq[r].job_id = j /\ rq[r].id = ClientOf(j)

\* C1: every Pay that succeeds debits the client by exactly job.price, credits
\* the contractor by exactly job.price, and leaves the sum of the two balances
\* as it was.
C1_PayTransfersPrice ==
    [][\A r \in Reqs :
        (Moves(r) /\ res'[r] = PaymentSuccessful) =>
            LET j == rq[r].job_id
                c == ClientOf(j)
                k == ContractorOf(j)
            IN /\ balance'[c] = balance[c] - Price(j)
               /\ balance'[k] = balance[k] + Price(j)
               /\ balance'[c] + balance'[k] = balance[c] + balance[k]]_vars

C1_Witness == \E r \in Reqs : PaySucceeded(r) /\ balance[ClientOf(rq[r].job_id)] = 1

\* C2: two Pay attempts by the client on the same unpaid job it can afford,
\* under any interleaving of their steps: exactly one succeeds, the other
\* fails, and the balances show exactly one transfer of job.price.
C2_ConcurrentPayOnce ==
    \A r1, r2 \in Reqs : \A j \in JobIds :
        (/\ r1 # r2
         /\ ValidPay(r1, j) /\ ValidPay(r2, j)
         /\ pc[r1] = "done" /\ pc[r2] = "done"
         /\ \A q \in Reqs \ {r1, r2} : pc[q] = "idle"
         /\ InitBalance[ClientOf(j)] >= Price(j))
        => /\ Cardinality(PaySuccesses(j)) = 1
           /\ \E r \in {r1, r2} : res[r].status = 400
           /\ balance[ClientOf(j)] = InitBalance[ClientOf(j)] - Price(j)
           /\ balance[ContractorOf(j)] = InitBalance[ContractorOf(j)] + Price(j)

\* the two attempts overlapped: the loser was refused at its commit
C2_Witness ==
    \E r1, r2 \in Reqs : \E j \in JobIds :
        /\ r1 # r2 /\ ValidPay(r1, j) /\ ValidPay(r2, j)
        /\ res[r1] = PaymentSuccessful
        /\ res[r2] = ErrorResponse(StoreErrorMessage)

\* C3: under any interleaving of Pay and Deposit, each Profile's balance is its
\* initial balance plus the deposits committed to it, minus the prices it paid
\* as client, plus the prices it received as contractor.
C3_NoLostUpdate == \A p \in Profiles : balance[p] = expected[p]

\* a deposit arrived after a payment, committed before the payment loaded its
\* client, and the payment committed on top of it
C3_Witness ==
    \E r1, r2 \in Reqs :
        /\ r1 < r2
        /\ PaySucceeded(r1)
        /\ IsDeposit(r2) /\ res[r2] = DepositSuccessful
        /\ rq[r2].userId = ClientOf(rq[r1].job_id)
        /\ rq[r2].depositAmount > 0
        /\ balance[rq[r2].userId] = 0

\* C4: a step of a Pay either commits all three mutations (client debited,
\* contractor credited, job paid with its paymentDate) and reports success, or
\* changes no stored row; a Pay whose save fails changes nothing and reports
\* failure.
C4_PayAllOrNothing ==
    [][\A r \in Reqs :
        (Moves(r) /\ rq'[r].kind = "pay") =>
            \/ /\ balance' = balance /\ job' = job
               /\ res'[r] # PaymentSuccessful
               /\ pc'[r] = "done" => res'[r].status = 400
            \/ LET j == rq[r].job_id
               IN /\ res'[r] = PaymentSuccessful
                  /\ balance'[ClientOf(j)] = balance[ClientOf(j)] - Price(j)
                  /\ balance'[ContractorOf(j)] = balance[ContractorOf(j)] + Price(j)
                  /\ ~job[j].paid /\ job'[j].paid
                  /\ job'[j].paymentDate # <<>>]_vars

\* a save failed with no other request in flight
C4_Witness ==
    \E r \in Reqs :
        /\ IsPay(r) /\ res[r] = ErrorResponse(StoreErrorMessage)
        /\ \A q \in Reqs \ {r} : pc[q] = "idle"

\* C5: starting from non-negative balances, no committed transaction leaves a
\* Profile with a negative balance.
C5_BalanceNonNegative == \A p \in Profiles : balance[p] >= 0

\* C6: a paid Job stays paid in every later state, and at most one Pay on a
\* Job ever succeeds.
C6_PaidOnce ==
    [][\A j \in JobIds :
        /\ job[j].paid => job'[j].paid
        /\ Cardinality(PaySuccesses(j))' <= 1]_vars

\* a second Pay on a paid job has run to its end
C6_Witness ==
    \E r1, r2 \in Reqs :
        /\ r1 # r2 /\ PaySucceeded(r1)
        /\ ValidPay(r2, rq[r1].job_id) /\ pc[r2] = "done"
        /\ res[r2] = ErrorResponse(AlreadyPaid)

\* C7: a Pay that succeeds was called by the ClientId of the job's Contract; no
\* step of a Pay called by the contractor or any other profile changes a
\* balance.
C7_OnlyClientPays ==
    [][\A r \in Reqs :
        (Moves(r) /\ rq'[r].kind = "pay" /\ rq'[r].job_id \in JobIds) =>
            /\ res'[r] = PaymentSuccessful => rq'[r].id = ClientOf(rq'[r].job_id)
            /\ rq'[r].id # ClientOf(rq'[r].job_id) => balance' = balance]_vars

\* the contractor tried to pay an unpaid job that its client could afford
C7_Witness ==
    \E r \in Reqs :
        /\ IsPay(r) /\ rq[r].job_id \in JobIds
        /\ rq[r].id = ContractorOf(rq[r].job_id)
        /\ ~job[rq[r].job_id].paid
        /\ balance[ClientOf(rq[r].job_id)] >= Price(rq[r].job_id)
        /\ pc[r] = "done"

\* C8: a Pay on a job that is already paid ends at the load of the job with
\* "Already paid", whoever calls, and changes no balance and no Job field.
C8_AlreadyPaidRejected ==
    [][\A r \in Reqs :
        (/\ Moves(r) /\ rq'[r].kind = "pay" /\ rq'[r].job_id \in JobIds
         /\ pc[r] = "idle" /\ job[rq'[r].job_id].paid) =>
            /\ pc'[r] = "done"
            /\ res'[r] = ErrorResponse(AlreadyPaid)
            /\ balance' = balance /\ job' = job]_vars

\* a profile that is not the client was told "Already paid"
C8_Witness ==
    \E r \in Reqs :
        /\ IsPay(r) /\ rq[r].job_id \in JobIds
        /\ rq[r].id # ClientOf(rq[r].job_id)
        /\ res[r] = ErrorResponse(AlreadyPaid)

\* C9 as stated: every Pay on an existing job by a caller other than the
\* contract's client fails with "Wrong job id".
C9_AsStated ==
    \A r \in Reqs :
        (/\ IsPay(r) /\ rq[r].job_id \in JobIds
         /\ rq[r].id # ClientOf(rq[r].job_id)
         /\ pc[r] = "done") => res[r] = ErrorResponse(WrongJobId)

\* C9 amended: a Pay on an existing job by a caller other than the contract's
\* client changes no balance and no Job, and fails with "Wrong job id" when
\* the job it loaded is unpaid ("Already paid" when it is paid).
C9_WrongCallerRejected ==
    [][\A r \in Reqs :
        (/\ Moves(r) /\ rq'[r].kind = "pay" /\ rq'[r].job_id \in JobIds
         /\ rq'[r].id # ClientOf(rq'[r].job_id)) =>
            /\ balance' = balance /\ job' = job
            /\ pc'[r] # "pay_save"
            /\ pc'[r] = "done" =>
                res'[r] = IF loc'[r].job.paid THEN ErrorResponse(AlreadyPaid)
                                              ELSE ErrorResponse(WrongJobId)]_vars

\* another profile was refused on an unpaid job its client could afford
C9_Witness ==
    \E r \in Reqs :
        /\ IsPay(r) /\ rq[r].job_id \in JobIds
        /\ rq[r].id \notin {ClientOf(rq[r].job_id), ContractorOf(rq[r].job_id)}
        /\ res[r] = ErrorResponse(WrongJobId)
        /\ balance[ClientOf(rq[r].job_id)] >= Price(rq[r].job_id)

\* C10 as stated: every Pay on an existing job that ends its checks while
\* client.balance < job.price fails with InsufficientFunds.
C10_AsStated ==
    [][\A r \in Reqs :
        (/\ Finishes(r) /\ rq'[r].kind = "pay" /\ rq'[r].job_id \in JobIds
         /\ pc[r] # "pay_save"
         /\ balance[ClientOf(rq'[r].job_id)] < Price(rq'[r].job_id)) =>
            res'[r] = ErrorResponse(InsufficientFunds)]_vars

\* C10 amended: a Pay by the contract's client on a job it loaded unpaid, with
\* the loaded client.balance < job.price, fails with InsufficientFunds, changes
\* no balance and does not mark the job paid.
C10_InsufficientRejected ==
    [][\A r \in Reqs :
        (/\ Moves(r) /\ pc[r] = "pay_findContractor"
         /\ rq[r].id = ClientOf(rq[r].job_id)
         /\ loc[r].client.balance < Price(rq[r].job_id)) =>
            /\ pc'[r] = "done"
            /\ res'[r] = ErrorResponse(InsufficientFunds)
            /\ balance' = balance /\ job' = job]_vars

\* the client was refused for lack of funds
C10_Witness ==
    \E r \in Reqs :
        /\ IsPay(r) /\ rq[r].job_id \in JobIds
        /\ rq[r].id = ClientOf(rq[r].job_id)
        /\ res[r] = ErrorResponse(InsufficientFunds)
        /\ ~job[rq[r].job_id].paid

\* sum of price over the unpaid Jobs whose Contract.ClientId is u, in the
\* committed ledger
Outstanding(u) == SumPrices({j \in JobIds : ClientOf(j) = u /\ ~job[j].paid})
DepositSucceeded(r) == IsDeposit(r) /\ res[r] = DepositSuccessful
Alone(r) == \A q \in Reqs \ {r} : pc[q] = "idle"

\* C11: a Deposit of amount > 0 to an existing profile passes the cap check
\* exactly when amount <= 0.25 * outstanding (boundary included) and is refused
\* with LimitExceeded otherwise, balance unchanged; a Deposit that succeeds
\* credits exactly amount; with no other request in flight a Deposit that
\* passed the check succeeds.
C11_DepositCap ==
    [][\A r \in Reqs :
        (/\ Moves(r) /\ IsDeposit(r)
         /\ rq[r].userId \in Profiles /\ rq[r].depositAmount > 0) =>
            LET u == rq[r].userId
                amount == rq[r].depositAmount
            IN /\ pc[r] = "deposit_sum" =>
                    /\ balance' = balance
                    /\ IF 4 * amount <= Outstanding(u)
                       THEN pc'[r] = "deposit_save"
                       ELSE pc'[r] = "done" /\ res'[r] = ErrorResponse(LimitExceeded)
               /\ pc[r] = "deposit_save" =>
                    /\ res'[r] = DepositSuccessful =>
                            balance'[u] = balance[u] + amount /\ 4 * amount <= Outstanding(u)
                    /\ res'[r] # DepositSuccessful => balance' = balance
                    /\ Alone(r) => res'[r] = DepositSuccessful]_vars

\* a deposit of exactly a quarter of the outstanding sum went through and a
\* larger one was refused
C11_Witness ==
    \E r1, r2 \in Reqs :
        /\ DepositSucceeded(r1) /\ rq[r1].depositAmount > 0
        /\ 4 * rq[r1].depositAmount = Outstanding(rq[r1].userId)
        /\ IsDeposit(r2) /\ rq[r2].userId = rq[r1].userId
        /\ rq[r2].depositAmount > rq[r1].depositAmount
        /\ res[r2] = ErrorResponse(LimitExceeded)

\* C12: when the profile has no unpaid job as client, every Deposit of an
\* amount > 0 is refused with LimitExceeded and the balance is unchanged.
C12_NoOutstandingRejected ==
    [][\A r \in Reqs :
        (/\ Moves(r) /\ pc[r] = "deposit_sum"
         /\ {j \in JobIds : ClientOf(j) = rq[r].userId /\ ~job[j].paid} = {}
         /\ rq[r].depositAmount > 0) =>
            /\ pc'[r] = "done"
            /\ res'[r] = ErrorResponse(LimitExceeded)
            /\ balance' = balance]_vars

\* a client whose jobs are all paid was refused
C12_Witness ==
    \E r \in Reqs :
        /\ IsDeposit(r) /\ rq[r].userId \in Profiles /\ rq[r].depositAmount > 0
        /\ \E j \in JobIds : ClientOf(j) = rq[r].userId
        /\ \A j \in JobIds : ClientOf(j) = rq[r].userId => job[j].paid
        /\ res[r] = ErrorResponse(LimitExceeded)

\* C13: whenever a step of a Deposit changes the stored balance, the amount is
\* within a quarter of the outstanding sum of the ledger state the credit is
\* committed in: no payment commits between the cap check and the credit.
C13_CapAtCommit ==
    [][\A r \in Reqs :
        (/\ Moves(r) /\ IsDeposit(r) /\ rq[r].userId \in Profiles
         /\ balance'[rq[r].userId] # balance[rq[r].userId]) =>
            /\ 4 * rq[r].depositAmount <= Outstanding(rq[r].userId)
            /\ job' = job]_vars

\* a payment committed after the cap check of a deposit that the new
\* outstanding sum no longer allows, and the deposit was refused at its commit
C13_Witness ==
    \E r1, r2 \in Reqs :
        /\ PaySucceeded(r1)
        /\ IsDeposit(r2) /\ rq[r2].userId = ClientOf(rq[r1].job_id)
        /\ 4 * rq[r2].depositAmount > Outstanding(rq[r2].userId)
        /\ res[r2] = ErrorResponse(StoreErrorMessage)

\* Vocabulary of the report properties.
AdminDone(op) == admin.pc = "done" /\ admin.query.op = op
WindowGiven == admin.query.start # <<>> /\ admin.query.end # <<>>
InWindow(d) == admin.query.start[1] <= d /\ d <= admin.query.end[1]
\* sum of price over the Jobs paid in the window whose contractor has profession p
ProfessionEarnings(p) ==
    SumPrice(admin.db,
             {j \in AdminJobIds :
                /\ admin.db[j].paymentDate # <<>>
                /\ InWindow(admin.db[j].paymentDate[1])
                /\ Profession[AdminContractTable[AdminJobContract[j]].ContractorId] = p})
Professions == {Profession[k] : k \in DOMAIN Profession}
\* the Jobs of client c whose Contract was created in the window
WindowJobsOf(c) ==
    {j \in AdminJobIds :
        /\ InWindow(AdminContractTable[AdminJobContract[j]].createdAt)
        /\ AdminContractTable[AdminJobContract[j]].ClientId = c}
ClientPaid(c) == SumPrice(admin.db, WindowJobsOf(c))
WindowClients == {c \in DOMAIN FullName : WindowJobsOf(c) # {}}

\* C14: a report request without start or without end is answered 400 "Both
\* start and end parameters are required" and no query has been run.
C14_MissingWindowRejected ==
    (admin.pc = "done" /\ ~WindowGiven) =>
        /\ admin.res = AdminBadRequest
        /\ admin.queries = 0

\* best clients was asked with a start and no end
C14_Witness ==
    /\ AdminDone("best-clients")
    /\ admin.query.start # <<>> /\ admin.query.end = <<>>
    /\ admin.res.status = 400

\* C15: best profession answers the profession whose Jobs paid in the
\* inclusive window sum to the most, and the "no data" message, not an error,
\* when no Job was paid in the window.
C15_BestProfession ==
    (AdminDone("best-profession") /\ WindowGiven) =>
        /\ admin.res.status = 200
        /\ admin.queries = 1
        /\ IF \E j \in AdminJobIds :
                admin.db[j].paymentDate # <<>> /\ InWindow(admin.db[j].paymentDate[1])
           THEN /\ admin.res.key = "bestProfession"
                /\ admin.res.body \in Professions
                /\ \A p \in Professions :
                        ProfessionEarnings(admin.res.body) >= ProfessionEarnings(p)
           ELSE admin.res.key = "message" /\ admin.res.body = NoDataFound

\* A earned more than B in a window that ends on the day both of A's jobs
\* were paid, neither of them alone matching B
C15_Witness ==
    /\ AdminDone("best-profession") /\ WindowGiven
    /\ admin.res.body = "A"
    /\ admin.db[1].paymentDate = admin.query.end
    /\ admin.db[3].paymentDate = admin.query.end
    /\ ProfessionEarnings("B") > admin.db[1].price
    /\ ProfessionEarnings("B") > admin.db[3].price
    /\ ProfessionEarnings("A") > ProfessionEarnings("B")

C17_PaymentDateWithPaid ==
    [][\A j \in JobIds :
        /\ job[j].paid <=> job[j].paymentDate # <<>>
        /\ job'[j].paid <=> job'[j].paymentDate # <<>>
        /\ job[j].paymentDate # <<>> => job'[j].paymentDate = job[j].paymentDate]_vars

\* a Pay arrived for a job that had been paid at an earlier time
C17_Witness ==
    \E r \in Reqs :
        /\ IsPay(r) /\ rq[r].job_id \in JobIds
        /\ res[r] = ErrorResponse(AlreadyPaid)
        /\ job[rq[r].job_id].paid
        /\ job[rq[r].job_id].paymentDate # <<>>
        /\ job[rq[r].job_id].paymentDate[1] < clock

BusinessErrors ==
    {JobNotFound, AlreadyPaid, WrongJobId, InsufficientFunds, ClientNotFound, LimitExceeded}

\* C18: a Pay or Deposit that ends in a business-rule error ends before its
\* instances are mutated and saved, and the step that ends it changes no stored
\* Profile and no stored Job.
C18_ValidateBeforeMutate ==
    [][\A r \in Reqs :
        (Finishes(r) /\ res'[r].status = 400 /\ res'[r].body \in BusinessErrors) =>
            /\ pc[r] \notin {"pay_save", "deposit_save"}
            /\ balance' = balance
            /\ job' = job
            /\ version' = version]_vars

\* a deposit over its cap and a payment without funds were both refused
C18_Witness ==
    \E r1, r2 \in Reqs :
        /\ res[r1] = ErrorResponse(LimitExceeded)
        /\ res[r2] = ErrorResponse(InsufficientFunds)

\* C19: the response to a Pay or Deposit that failed inside the store does
\* not carry the store's error message.
C19_InternalFailureGeneric ==
    \A r \in Reqs : pc[r] = "done" => res[r].body # StoreErrorMessage

\* C20: a Deposit that reports success leaves the balance at least what it
\* was, and changes it only for an amount > 0.
C20_DepositNeverLowers ==
    [][\A r \in Reqs :
        (Moves(r) /\ IsDeposit(r) /\ res'[r] = DepositSuccessful) =>
            /\ balance'[rq[r].userId] >= balance[rq[r].userId]
            /\ balance'[rq[r].userId] # balance[rq[r].userId] => rq[r].depositAmount > 0]_vars

====
